---- MODULE Spec2Model ----
(***************************************************************************)
(* Model of lib/sqlite3_helpers.c: aw_sqlite3_bind_text_transient, the     *)
(* shim that forwards (stmt, col, text, len) to sqlite3_bind_text with     *)
(* SQLITE_TRANSIENT as the destructor argument.                            *)
(*                                                                         *)
(* A caller thread enters the shim (Invoke), the shim issues the one call  *)
(* of its body (Delegate), and the library executes that call and the shim *)
(* returns its value (LibReturn).  The library is modelled by its          *)
(* documented contract for the text-binding primitive.                     *)
(***************************************************************************)
EXTENDS Integers, Sequences, FiniteSets, TLC

\* ---- bounds of the model ----
NThreads == 2      \* caller threads
NStmts == 2        \* prepared statements
NumParams == 2     \* parameters (columns) of statement 1, numbered from 1
MaxLen == 1        \* longest text a caller buffer holds

\* ---- values of sqlite3.h used by the shim and its callers ----
SQLITE_OK == 0
SQLITE_NOMEM == 7
SQLITE_MISUSE == 21
SQLITE_RANGE == 25
SQLITE_STATIC == 0
SQLITE_TRANSIENT == -1

NULL == 0
Threads == 1..NThreads
Stmts == 1..NStmts
Bufs == Threads            \* thread t owns the buffer at address t
MainThread == CHOOSE t \in Threads : \A u \in Threads : t <= u
Chars == {"a"}

\* Statement 1 has NumParams parameters, every other statement has one.
ParamCount(s) == IF s = 1 THEN NumParams ELSE 1

RECURSIVE StringsOfLen(_)
StringsOfLen(n) ==
  IF n = 0 THEN {<<>>}
  ELSE {Append(s, c) : s \in StringsOfLen(n - 1), c \in Chars}

Strings == UNION {StringsOfLen(n) : n \in 0..MaxLen}

VARIABLES
  pc,           \* pc[t]: "idle", "in_shim" (shim entered), "in_lib" (call issued)
  frame,        \* frame[t]: the shim's parameters <<stmt, col, text, len>>, or <<>>
  libArgs,      \* libArgs[t]: the arguments sqlite3_bind_text received, or <<>>
  rc,           \* rc[t]: <<status>> the last call returned to the caller, or <<>>
  entry,        \* entry[t]: the bindings of the call's statement when it entered
  aVar,         \* aVar[s][c]: the value bound to column c of statement s
  heap,         \* heap[b]: the caller buffer at address b
  mallocFails   \* whether the library's next allocation fails

vars == <<pc, frame, libArgs, rc, entry, aVar, heap, mallocFails>>

\* ---- the library's bound values ----
MemNull == [flags |-> "MEM_Null", z |-> <<>>, ptr |-> NULL, n |-> 0]
MemCopy(bytes) == [flags |-> "MEM_Ephem", z |-> bytes, ptr |-> NULL, n |-> Len(bytes)]
MemPointer(xDel, p, n) ==
  [flags |-> IF xDel = SQLITE_STATIC THEN "MEM_Static" ELSE "MEM_Dyn",
   z |-> <<>>, ptr |-> p, n |-> n]

strlen(bytes) == Len(bytes)

\* The bytes a (text, len) pair denotes: up to the terminator when len < 0.
TextBytes(hp, text, len) ==
  IF len < 0 THEN hp[text].bytes ELSE SubSeq(hp[text].bytes, 1, len)

\* sqlite3_bind_text(stmt, col, text, len, xDel) on bindings av, with caller
\* memory hp and allocator state oom: the status and the new bindings.
sqlite3_bind_text(av, hp, oom, a) ==
  LET stmt == a[1]
      col  == a[2]
      text == a[3]
      len  == a[4]
      xDel == a[5]
  IN
  IF stmt = NULL THEN [rc |-> SQLITE_MISUSE, aVar |-> av]
  ELSE IF col < 1 \/ col > ParamCount(stmt) THEN [rc |-> SQLITE_RANGE, aVar |-> av]
  ELSE
    LET cleared == [av EXCEPT ![stmt][col] = MemNull] IN
    IF text = NULL THEN [rc |-> SQLITE_OK, aVar |-> cleared]
    ELSE
      LET n == IF len < 0 THEN strlen(hp[text].bytes) ELSE len IN
      IF xDel = SQLITE_TRANSIENT
      THEN IF oom
           THEN [rc |-> SQLITE_NOMEM, aVar |-> cleared]
           ELSE [rc |-> SQLITE_OK,
                 aVar |-> [av EXCEPT ![stmt][col] = MemCopy(TextBytes(hp, text, len))]]
      ELSE [rc |-> SQLITE_OK,
            aVar |-> [av EXCEPT ![stmt][col] = MemPointer(xDel, text, n)]]

\* What a statement can read from column c: a copy reads its own bytes, a
\* retained pointer reads the caller's memory as it is now (anything at all
\* once that memory was released or shortened).
ColumnText(av, hp, s, c) ==
  LET m == av[s][c] IN
  IF m.flags = "MEM_Null" THEN {}
  ELSE IF m.flags = "MEM_Ephem" THEN {m.z}
  ELSE IF hp[m.ptr].live /\ Len(hp[m.ptr].bytes) >= m.n
       THEN {SubSeq(hp[m.ptr].bytes, 1, m.n)}
       ELSE Strings

\* ---- the shim ----
\* Mutant: the shim passes the static lifetime policy.
aw_args_static(f) == <<f[1], f[2], f[3], f[4], SQLITE_STATIC>>

\* Mutant: the shim converts the 1-based column index to a 0-based one.
aw_args_zero_based(f) == <<f[1], f[2] - 1, f[3], f[4], SQLITE_TRANSIENT>>

\* Mutant: the shim keeps its parameters in static storage shared by all
\* threads, so a call forwards the parameters of the latest caller in flight.
aw_args_static_storage(f) ==
  LET u == CHOOSE v \in Threads :
             /\ frame[v] # <<>>
             /\ \A w \in Threads : frame[w] # <<>> => w <= v
  IN <<frame[u][1], frame[u][2], frame[u][3], frame[u][4], SQLITE_TRANSIENT>>

\* The argument list of the shim's one call, built from its parameters f.
aw_sqlite3_bind_text_transient(f) == <<f[1], f[2], f[3], f[4], SQLITE_TRANSIENT>>

\* Mutant: the shim reports every failure as a generic error.
aw_return_masked(r) == IF r = SQLITE_OK THEN SQLITE_OK ELSE 1

\* The value the shim returns, given the value r its call returned.
aw_return(r) == r

\* ---- inputs ----
TextArgs(t) == {NULL} \cup {b \in {t} : heap[b].live}
LenArgs(text) ==
  IF text = NULL THEN -1..0 ELSE -1..Len(heap[text].bytes)

\* No other thread has a call in flight on the statement handle stmt.
HandleFree(t, stmt) ==
  \A u \in Threads \ {t} :
     IF frame[u] = <<>> THEN TRUE ELSE (stmt = NULL) \/ (frame[u][1] # stmt)

Init ==
  /\ pc = [t \in Threads |-> "idle"]
  /\ frame = [t \in Threads |-> <<>>]
  /\ libArgs = [t \in Threads |-> <<>>]
  /\ rc = [t \in Threads |-> <<>>]
  /\ entry = [t \in Threads |-> <<>>]
  /\ aVar = [s \in Stmts |-> [c \in 1..ParamCount(s) |-> MemNull]]
  /\ heap = [b \in Bufs |-> [live |-> FALSE, bytes |-> <<>>]]
  /\ mallocFails = FALSE

\* The threads' buffers are allocated and hold texts of different lengths.
InitConc ==
  /\ pc = [t \in Threads |-> "idle"]
  /\ frame = [t \in Threads |-> <<>>]
  /\ libArgs = [t \in Threads |-> <<>>]
  /\ rc = [t \in Threads |-> <<>>]
  /\ entry = [t \in Threads |-> <<>>]
  /\ aVar = [s \in Stmts |-> [c \in 1..ParamCount(s) |-> MemNull]]
  /\ heap = [b \in Bufs |->
              [live |-> TRUE,
               bytes |-> CHOOSE x \in Strings : Len(x) = (b - 1) % (MaxLen + 1)]]
  /\ mallocFails = FALSE

\* A caller calls aw_sqlite3_bind_text_transient(stmt, col, text, len).
Invoke(t, stmt, col, text, len) ==
  /\ pc[t] = "idle"
  /\ HandleFree(t, stmt)
  /\ pc' = [pc EXCEPT ![t] = "in_shim"]
  /\ frame' = [frame EXCEPT ![t] = <<stmt, col, text, len>>]
  /\ rc' = [rc EXCEPT ![t] = <<>>]
  /\ entry' = [entry EXCEPT ![t] = IF stmt = NULL THEN <<>> ELSE <<aVar[stmt]>>]
  /\ UNCHANGED <<libArgs, aVar, heap, mallocFails>>

\* Mutant: the shim validates its input and returns early on a null text.
DelegateValidating(t) ==
  /\ pc[t] = "in_shim"
  /\ IF frame[t][3] = NULL
     THEN /\ pc' = [pc EXCEPT ![t] = "idle"]
          /\ rc' = [rc EXCEPT ![t] = <<SQLITE_MISUSE>>]
          /\ frame' = [frame EXCEPT ![t] = <<>>]
          /\ entry' = [entry EXCEPT ![t] = <<>>]
          /\ UNCHANGED libArgs
     ELSE /\ pc' = [pc EXCEPT ![t] = "in_lib"]
          /\ libArgs' = [libArgs EXCEPT ![t] = aw_sqlite3_bind_text_transient(frame[t])]
          /\ UNCHANGED <<frame, rc, entry>>
  /\ UNCHANGED <<aVar, heap, mallocFails>>

\* The shim's body issues its call of sqlite3_bind_text.
Delegate(t) ==
  /\ pc[t] = "in_shim"
  /\ pc' = [pc EXCEPT ![t] = "in_lib"]
  /\ libArgs' = [libArgs EXCEPT ![t] = aw_sqlite3_bind_text_transient(frame[t])]
  /\ UNCHANGED <<frame, rc, entry, aVar, heap, mallocFails>>

\* The library executes the call and the shim returns its value to the caller.
LibReturn(t) ==
  /\ pc[t] = "in_lib"
  /\ LET r == sqlite3_bind_text(aVar, heap, mallocFails, libArgs[t]) IN
       /\ aVar' = r.aVar
       /\ rc' = [rc EXCEPT ![t] = <<aw_return(r.rc)>>]
  /\ pc' = [pc EXCEPT ![t] = "idle"]
  /\ frame' = [frame EXCEPT ![t] = <<>>]
  /\ libArgs' = [libArgs EXCEPT ![t] = <<>>]
  /\ entry' = [entry EXCEPT ![t] = <<>>]
  /\ UNCHANGED <<heap, mallocFails>>

\* The caller (re)allocates its buffer and fills it.
WriteBuf(t, bytes) ==
  /\ pc[t] = "idle"
  /\ heap[t] # [live |-> TRUE, bytes |-> bytes]
  /\ heap' = [heap EXCEPT ![t] = [live |-> TRUE, bytes |-> bytes]]
  /\ UNCHANGED <<pc, frame, libArgs, rc, entry, aVar, mallocFails>>

\* The caller releases its buffer.
FreeBuf(t) ==
  /\ pc[t] = "idle"
  /\ heap[t].live
  /\ heap' = [heap EXCEPT ![t] = [live |-> FALSE, bytes |-> <<>>]]
  /\ UNCHANGED <<pc, frame, libArgs, rc, entry, aVar, mallocFails>>

\* The allocator runs out of memory, or recovers.
MemPressure ==
  /\ mallocFails' = ~mallocFails
  /\ UNCHANGED <<pc, frame, libArgs, rc, entry, aVar, heap>>

\* One caller thread, every input.
Next ==
  \/ \E stmt \in {NULL} \cup Stmts, col \in 0..(NumParams + 1),
        text \in TextArgs(MainThread) :
       \E len \in LenArgs(text) : Invoke(MainThread, stmt, col, text, len)
  \/ Delegate(MainThread)
  \/ LibReturn(MainThread)
  \/ \E bytes \in Strings : WriteBuf(MainThread, bytes)
  \/ FreeBuf(MainThread)
  \/ MemPressure

Spec == Init /\ [][Next]_vars

\* Several caller threads, each call on a statement no other call is using.
NextConc ==
  \/ \E t \in Threads, stmt \in Stmts :
       \E col \in 1..ParamCount(stmt) : Invoke(t, stmt, col, t, -1)
  \/ \E t \in Threads : Delegate(t)
  \/ \E t \in Threads : LibReturn(t)

SpecConc == InitConc /\ [][NextConc]_vars

TypeOK ==
  /\ pc \in [Threads -> {"idle", "in_shim", "in_lib"}]
  /\ mallocFails \in BOOLEAN
  /\ \A t \in Threads : Len(frame[t]) \in {0, 4} /\ Len(libArgs[t]) \in {0, 5}

\* ---- steps of a call, as seen from outside ----
\* Thread t's call returns to its caller in this step.
Returned(t) == pc[t] = "in_lib" /\ pc'[t] = "idle"

\* The call sqlite3_bind_text(stmt, col, text, len, SQLITE_TRANSIENT) a caller
\* would make itself with the parameters f it gave the shim.
DirectArgs(f) == <<f[1], f[2], f[3], f[4], SQLITE_TRANSIENT>>

\* C1: pass-through equivalence.  When a call of the shim returns, its status
\* and the bindings of every statement are those that the direct call
\* sqlite3_bind_text(stmt, col, text, len, SQLITE_TRANSIENT) yields from the
\* state the library was in when it executed the call.
C1_PassThroughEquivalence ==
  [][\A t \in Threads :
       (Returned(t) /\ frame[t] # <<>>) =>
         LET d == sqlite3_bind_text(aVar, heap, mallocFails, DirectArgs(frame[t]))
         IN rc'[t] = <<d.rc>> /\ aVar' = d.aVar]_vars

C1_Witness ==
  \E t \in Threads, s \in Stmts : \E c \in 1..ParamCount(s) :
    /\ pc[t] = "idle" /\ rc[t] = <<SQLITE_OK>>
    /\ aVar[s][c].flags = "MEM_Ephem" /\ aVar[s][c].z # <<>>

\* C2: the status the shim returns is exactly the status the wrapped call
\* returned, for success and for every error code.
C2_StatusUnmodified ==
  [][\A t \in Threads :
       Returned(t) =>
         rc'[t] = <<sqlite3_bind_text(aVar, heap, mallocFails, libArgs[t]).rc>>]_vars

C2_Witness ==
  \E t \in Threads : pc[t] = "idle" /\ rc[t] = <<SQLITE_NOMEM>>

\* C3: the lifetime argument every call of sqlite3_bind_text receives from the
\* shim is SQLITE_TRANSIENT, whatever the parameters and the earlier calls.
C3_AlwaysTransient ==
  \A t \in Threads : libArgs[t] # <<>> => libArgs[t][5] = SQLITE_TRANSIENT

C3_Witness ==
  \E t \in Threads, s \in Stmts : \E c \in 1..ParamCount(s) :
    /\ pc[t] = "in_lib" /\ libArgs[t][3] # NULL /\ libArgs[t][4] = 0
    /\ aVar[s][c].flags # "MEM_Null"

\* C4: stmt, col, text and len reach sqlite3_bind_text unchanged and in the
\* same positions.
C4_ArgumentsUnchanged ==
  \A t \in Threads :
    pc[t] = "in_lib" =>
      /\ libArgs[t][1] = frame[t][1]
      /\ libArgs[t][2] = frame[t][2]
      /\ libArgs[t][3] = frame[t][3]
      /\ libArgs[t][4] = frame[t][4]

C4_Witness ==
  \E t \in Threads :
    /\ pc[t] = "in_lib" /\ frame[t][1] = 1 /\ frame[t][2] = NumParams
    /\ frame[t][3] # NULL /\ frame[t][4] = MaxLen

\* C5: copy-on-bind.  After a successful call with a text buffer, the column
\* reads the bytes the buffer held at the call, and no later write to or
\* release of a caller buffer changes what any column reads.
C5_CopyOnBind ==
  [][/\ \A t \in Threads :
          (/\ Returned(t) /\ frame[t] # <<>> /\ rc'[t] = <<SQLITE_OK>>
           /\ frame[t][3] # NULL) =>
             ColumnText(aVar', heap', frame[t][1], frame[t][2])
               = {TextBytes(heap, frame[t][3], frame[t][4])}
     /\ heap' # heap =>
          \A s \in Stmts : \A c \in 1..ParamCount(s) :
            ColumnText(aVar', heap', s, c) = ColumnText(aVar, heap, s, c)]_vars

C5_Witness ==
  \E s \in Stmts : \E c \in 1..ParamCount(s) :
    /\ aVar[s][c].flags = "MEM_Ephem" /\ aVar[s][c].z # <<>>
    /\ ColumnText(aVar, heap, s, c) = {aVar[s][c].z}
    /\ ~heap[MainThread].live
    /\ rc[MainThread] = <<SQLITE_OK>>

\* C6: the shim validates nothing.  Whatever its parameters, the only way out
\* of the shim's body is the call of sqlite3_bind_text with those parameters,
\* and a status reaches the caller only from that call.
C6_NoValidation ==
  [][\A t \in Threads :
       /\ (pc[t] = "in_shim" /\ pc'[t] # "in_shim") =>
            /\ pc'[t] = "in_lib"
            /\ SubSeq(libArgs'[t], 1, 4) = frame[t]
       /\ (rc'[t] # <<>> /\ rc'[t] # rc[t]) => pc[t] = "in_lib"]_vars

C6_Witness ==
  \E t \in Threads :
    /\ pc[t] = "in_lib" /\ libArgs[t][3] = NULL /\ libArgs[t][4] < 0
    /\ libArgs[t][2] > NumParams

\* C7: a call of the shim makes exactly one call of sqlite3_bind_text and
\* changes nothing else: entering the library changes no binding and no caller
\* memory, the library call is followed by the return, and the return leaves
\* every column other than (stmt, col) as it was.
C7_FrameEffect ==
  [][\A t \in Threads :
       /\ (pc[t] = "in_shim" /\ pc'[t] # "in_shim") =>
            /\ pc'[t] = "in_lib"
            /\ aVar' = aVar /\ heap' = heap /\ mallocFails' = mallocFails
       /\ (pc[t] = "in_lib" /\ pc'[t] # "in_lib") =>
            /\ pc'[t] = "idle"
            /\ heap' = heap /\ mallocFails' = mallocFails
            /\ frame[t] # <<>> =>
                 \A s \in Stmts : \A c \in 1..ParamCount(s) :
                   (s # frame[t][1] \/ c # frame[t][2]) => aVar'[s][c] = aVar[s][c]]_vars

C7_Witness ==
  \E t \in Threads :
    /\ pc[t] = "idle" /\ rc[t] = <<SQLITE_OK>>
    /\ aVar[1][1].flags = "MEM_Ephem" /\ aVar[1][1].z # <<>>
    /\ aVar[1][NumParams].flags = "MEM_Ephem" /\ aVar[1][NumParams].z = <<>>
    /\ aVar[NStmts][1].flags = "MEM_Ephem"

\* C8: calls made by different threads on different statement handles do not
\* interfere.  However the calls interleave, each call returns the status and
\* leaves its statement with the bindings that the call yields when run alone
\* from the bindings its statement had when the call began, it leaves the other
\* statements alone, and a call inside the shim can always proceed.
C8_NoInterference ==
  /\ [](\A t \in Threads : pc[t] = "in_shim" => ENABLED Delegate(t))
  /\ [][\A t \in Threads :
          (Returned(t) /\ frame[t] # <<>> /\ frame[t][1] # NULL) =>
            LET s == frame[t][1]
                before == [aVar EXCEPT ![s] = entry[t][1]]
                d == sqlite3_bind_text(before, heap, mallocFails, DirectArgs(frame[t]))
            IN /\ rc'[t] = <<d.rc>>
               /\ aVar'[s] = d.aVar[s]
               /\ \A o \in Stmts \ {s} : aVar'[o] = aVar[o]]_vars

C8_Witness ==
  \E t \in Threads, u \in Threads :
    /\ t # u
    /\ pc[t] = "in_lib" /\ pc[u] = "in_lib"
    /\ libArgs[t][1] # libArgs[u][1]
    /\ libArgs[t][3] # NULL /\ libArgs[u][3] # NULL
    /\ heap[t] # heap[u]
    /\ \E c \in 1..ParamCount(libArgs[t][1]) : aVar[libArgs[t][1]][c].flags = "MEM_Ephem"
====
